---- MODULE Spec2Model ----
(***************************************************************************)
(* A model of the movie API: the user store behind the HTTP routes of      *)
(* index.js and the login route of auth.js (src/unnamed/part_000).         *)
(* models.js and passport.js are not part of the checked-in sources; the   *)
(* password hasher, the serialisation of a user document and the two       *)
(* passport strategies are modelled from the specification (sections 4.1,  *)
(* 4.2 and 4.4).                                                           *)
(***************************************************************************)
EXTENDS Naturals, Sequences, FiniteSets, TLC

VARIABLES users, created, movies, issued, now, pending, revoked, res

vars == <<users, created, movies, issued, now, pending, revoked, res>>

----------------------------------------------------------------------------
(* Bounds of the model *)

\* user documents ever created
MaxUsers == 2
\* tokens ever issued
MaxTokens == 1
\* horizon of the clock
MaxTime == 1
\* length of a FavoriteMovies list
MaxFavs == 1

----------------------------------------------------------------------------
(* Program constants and request inputs *)

\* expiresIn: '7d'; the clock counts periods of seven days
ExpiresIn == 1

\* isLength({ min: 5, max: 10 })
MinNameLen == 5
MaxNameLen == 10

Names == {"alice12", "bob99"}
ShortName == "al"
BodyNames == Names \cup {ShortName}
Alphanumeric == BodyNames
Passwords == {"pw1", "pw2"}
BodyPasswords == Passwords \cup {""}
GoodEmail == "a@x.io"
BadEmail == "bad"
BodyEmails == {GoodEmail, BadEmail}
Birthdays == {"1990-01-01"}
Salts == {"s1"}
MovieIds == {"m1"}

Bodies == [Username : BodyNames, Password : BodyPasswords,
           Email : BodyEmails, Birthday : Birthdays]

\* the bodies the clients of the model send to POST /users: the valid ones
\* and one failing each validator
PostBodies ==
  {b \in Bodies :
     /\ b.Password # "pw2"
     /\ Cardinality({b.Username = ShortName, b.Password = "", b.Email = BadEmail}
                      \ {FALSE}) <= 1
     /\ (b.Password = "" \/ b.Email = BadEmail) => b.Username = "alice12"}

\* the bodies the clients of the model send to PUT /users/:username: the
\* a valid one and one failing every validator
PutBodies ==
  {b \in Bodies :
     \/ b.Username = "bob99" /\ b.Password = "pw2" /\ b.Email = GoodEmail
     \/ b.Username = ShortName /\ b.Password = "" /\ b.Email = BadEmail}

\* the store call of a request that fails, if any: the lookup of the
\* strategy or the call of the handler
Failures == {"none", "strategy", "handler"}

----------------------------------------------------------------------------
(* express-validator chain of POST /users and PUT /users/:username *)

validationResult(body) ==
  /\ Len(body.Username) >= MinNameLen
  /\ Len(body.Username) <= MaxNameLen
  /\ body.Username \in Alphanumeric
  /\ body.Password # ""
  /\ body.Email = GoodEmail

----------------------------------------------------------------------------
(* Password Hasher (models.js, from the specification, section 4.1) *)

hashPassword(password, salt) == "$2b$" \o salt \o "$" \o password

validatePassword(password, digest) ==
  \E s \in Salts : digest = hashPassword(password, s)

IsHash(digest) == \E p \in BodyPasswords, s \in Salts : digest = hashPassword(p, s)

----------------------------------------------------------------------------
(* The store: the user documents in their natural (insertion) order *)

Remove(seq, i) == SubSeq(seq, 1, i - 1) \o SubSeq(seq, i + 1, Len(seq))

Matching(us, name) == {i \in 1..Len(us) : us[i].Username = name}

\* the first document a query { Username: name } matches
First(us, name) == CHOOSE i \in Matching(us, name) : \A j \in Matching(us, name) : i <= j

\* Users.findOne({ Username: name }): the empty set stands for null
findOne(us, name) ==
  IF Matching(us, name) = {} THEN {} ELSE {us[First(us, name)]}

\* Users.create({...})
create(us, body, hashedPassword) ==
  Append(us, [Username |-> body.Username, Password |-> hashedPassword,
              Email |-> body.Email, Birthday |-> body.Birthday,
              FavoriteMovies |-> <<>>])

\* Users.findOneAndRemove({ Username: name })
findOneAndRemove(us, name) ==
  IF Matching(us, name) = {} THEN us ELSE Remove(us, First(us, name))

\* the $set of PUT /users/:username
SetProfile(u, body) ==
  [u EXCEPT !.Username = body.Username, !.Password = body.Password,
            !.Email = body.Email, !.Birthday = body.Birthday]

\* the $push of POST /users/:Username/movies/:MovieId
PushFavorite(u, movieId) ==
  [u EXCEPT !.FavoriteMovies = Append(@, movieId)]

\* the serialisation of a user document (models.js, from the specification,
\* section 4.2: the password hash is excluded from any onward serialisation)
toJSON(u) ==
  [Username |-> u.Username, Email |-> u.Email, Birthday |-> u.Birthday,
   FavoriteMovies |-> u.FavoriteMovies]

----------------------------------------------------------------------------
(* Tokens *)

\* jwt.sign(user, jwtSecret, { subject, expiresIn, algorithm })
generateJWTToken(user, t) ==
  [sub |-> user.Username, iat |-> t, exp |-> t + ExpiresIn] @@ user

\* the registered claims of a token, which verification reads
Claims(payload) == [sub |-> payload.sub, iat |-> payload.iat, exp |-> payload.exp]

NoCred == [kind |-> "none", sub |-> "", iat |-> 0, exp |-> 0]
Malformed == [kind |-> "malformed", sub |-> "", iat |-> 0, exp |-> 0]
Signed(t) == [kind |-> "signed", sub |-> t.sub, iat |-> t.iat, exp |-> t.exp]
BadSignature(name, t) ==
  [kind |-> "badsig", sub |-> name, iat |-> t, exp |-> t + ExpiresIn]

\* what a client can put in the Authorization header
Creds(iss, t) ==
  {NoCred, Malformed, BadSignature("alice12", t)} \cup {Signed(c) : c \in iss}

\* Token Verification Strategy (passport.js, from the specification,
\* section 4.4)
JWTStrategy(cred, t, us, storeFails) ==
  CASE cred.kind = "none" -> [error |-> "NoToken", user |-> {}]
    [] cred.kind = "malformed" -> [error |-> "MalformedToken", user |-> {}]
    [] cred.kind = "badsig" -> [error |-> "BadSignature", user |-> {}]
    [] cred.kind = "signed" /\ t >= cred.exp -> [error |-> "Expired", user |-> {}]
    [] cred.kind = "signed" /\ t < cred.exp /\ storeFails ->
         [error |-> "StoreUnavailable", user |-> {}]
    [] cred.kind = "signed" /\ t < cred.exp /\ ~storeFails ->
         IF findOne(us, cred.sub) = {}
         THEN [error |-> "NotFound", user |-> {}]
         ELSE [error |-> "", user |-> findOne(us, cred.sub)]

\* Authentication Strategy (passport.js, from the specification, section 4.2)
LocalStrategy(us, name, password, storeFails) ==
  IF storeFails THEN [error |-> TRUE, user |-> {}, info |-> "StoreUnavailable"]
  ELSE IF findOne(us, name) = {}
  THEN [error |-> FALSE, user |-> {}, info |-> "NotFound"]
  ELSE LET u == CHOOSE x \in findOne(us, name) : TRUE
       IN IF validatePassword(password, u.Password)
          THEN [error |-> FALSE, user |-> {u}, info |-> ""]
          ELSE [error |-> FALSE, user |-> {}, info |-> "InvalidCredentials"]

----------------------------------------------------------------------------
(* Routes *)

\* the GET routes a request can reach: GET /movies/:Director is registered
\* after GET /movies/:title, which matches the same paths
ReadRoutes ==
  {"GET /users", "GET /users/:username", "GET /movies", "GET /movies/:title",
   "GET /movies/:Genre/:Description"}

\* the routes with the favorites routes left unguarded
GuardedButFavorites ==
  ReadRoutes \cup
  {"GET /movies/:Director", "PUT /users/:username", "DELETE /users/:Username"}

\* the routes with GET /users left unguarded
GuardedButGetUsers ==
  (ReadRoutes \ {"GET /users"}) \cup
  {"GET /movies/:Director", "PUT /users/:username",
   "POST /users/:Username/movies/:MovieId",
   "DELETE /users/:Username/movies/:MovieId", "DELETE /users/:Username"}

\* the routes registered with passport.authenticate('jwt', { session: false })
Guarded ==
  ReadRoutes \cup
  {"GET /movies/:Director", "PUT /users/:username",
   "POST /users/:Username/movies/:MovieId",
   "DELETE /users/:Username/movies/:MovieId", "DELETE /users/:Username"}

\* the answer to a request: the status and what was sent, with the request
\* it answers (op, cred, target, valid) and the cause of a failure
Res(op, status, sends, invoked, cred, target, valid, cause, message, user, token) ==
  [op |-> op, status |-> status, sends |-> sends, invoked |-> invoked,
   cred |-> cred, target |-> target, valid |-> valid, cause |-> cause,
   message |-> message, user |-> user, token |-> token]

NoRes == Res("none", 0, 0, FALSE, NoCred, "", TRUE, "", "", {}, {})

\* the server takes up one request at a time in the model: the handlers run
\* to their next await without interleaving
Idle == res = NoRes

\* passport.authenticate('jwt') in front of a handler: "ok", or the status
\* it answers with
RouteGuard(route, auth) ==
  IF route \notin Guarded THEN "ok"
  ELSE IF auth.error = "" THEN "ok"
  ELSE IF auth.error = "StoreUnavailable" THEN "500"
  ELSE "401"

Rejected(op, g, cred, target, valid) ==
  IF g = "500"
  THEN Res(op, 500, 1, FALSE, cred, target, valid, "StoreUnavailable", "", {}, {})
  ELSE Res(op, 401, 1, FALSE, cred, target, valid, "Unauthorized", "Unauthorized", {}, {})

----------------------------------------------------------------------------
(* POST /users: validation, hash, findOne; then, after the await, create *)

\* a registration between its findOne and its create
Registration(body, hashedPassword) == [body |-> body, hashedPassword |-> hashedPassword]

Registrations ==
  {Registration(b, hashPassword(b.Password, s)) :
     b \in {x \in PostBodies : validationResult(x)}, s \in Salts}

RECURSIVE Sum(_, _)
Sum(f, S) == IF S = {} THEN 0
             ELSE LET x == CHOOSE y \in S : TRUE IN f[x] + Sum(f, S \ {x})

InFlight(pend) == Sum(pend, DOMAIN pend)

PostUsers(body, salt, storeFails) ==
  LET op == "POST /users"
      hashedPassword == hashPassword(body.Password, salt)
      valid == validationResult(body)
  IN /\ UNCHANGED <<users, created, movies, issued, now, revoked>>
     /\ IF ~valid
        THEN /\ res' = Res(op, 422, 1, TRUE, NoCred, body.Username, FALSE,
                           "Validation", "errors", {}, {})
             /\ UNCHANGED pending
        ELSE IF storeFails
        THEN /\ res' = Res(op, 500, 1, TRUE, NoCred, body.Username, TRUE,
                           "StoreUnavailable", "Error", {}, {})
             /\ UNCHANGED pending
        ELSE IF findOne(users, body.Username) # {}
        THEN /\ res' = Res(op, 400, 1, TRUE, NoCred, body.Username, TRUE,
                           "Exists", "already exists", {}, {})
             /\ UNCHANGED pending
        ELSE /\ created + InFlight(pending) < MaxUsers
             /\ pending' = [pending EXCEPT ![Registration(body, hashedPassword)] = @ + 1]
             /\ res' = NoRes

CreateUser(p, storeFails) ==
  LET op == "POST /users"
      after == create(users, p.body, p.hashedPassword)
  IN /\ pending[p] > 0
     /\ pending' = [pending EXCEPT ![p] = @ - 1]
     /\ UNCHANGED <<movies, issued, now, revoked>>
     /\ IF storeFails
        THEN /\ res' = Res(op, 500, 1, TRUE, NoCred, p.body.Username, TRUE,
                           "StoreUnavailable", "Error", {}, {})
             /\ UNCHANGED <<users, created>>
        ELSE /\ users' = after
             /\ created' = created + 1
             /\ res' = Res(op, 201, 1, TRUE, NoCred, p.body.Username, TRUE,
                           "", "", {toJSON(after[Len(after)])}, {})

----------------------------------------------------------------------------
(* POST /login *)

\* generateJWTToken(user): the document itself, not its serialisation
LoginTokenPayloadRaw(u, t) == generateJWTToken(u, t)

\* generateJWTToken(user.toJSON())
LoginTokenPayload(u, t) == generateJWTToken(toJSON(u), t)

\* the 400 answer with the strategy's info as its message
LoginFailureWithInfo(name, r) ==
  Res("POST /login", 400, 1, TRUE, NoCred, name, TRUE, r.info, r.info, r.user, {})

\* the body of the 400 answer: message and user, never info
LoginFailure(name, r) ==
  Res("POST /login", 400, 1, TRUE, NoCred, name, TRUE, r.info,
      "Something is not right", r.user, {})

\* the callback of req.login: res.send(error) does not return
LoginSends(loginError) == IF loginError THEN 2 ELSE 1

Login(name, password, storeFails, loginError) ==
  LET r == LocalStrategy(users, name, password, storeFails)
  IN /\ UNCHANGED <<users, created, movies, now, pending, revoked>>
     /\ IF r.error \/ r.user = {}
        THEN /\ res' = LoginFailure(name, r)
             /\ UNCHANGED issued
        ELSE LET u == CHOOSE x \in r.user : TRUE
                 payload == LoginTokenPayload(u, now)
             IN /\ res' = Res("POST /login", 200, LoginSends(loginError), TRUE,
                              NoCred, name, TRUE,
                              IF loginError THEN "LoginError" ELSE "",
                              "", {toJSON(u)}, {payload})
                /\ IF loginError
                   THEN UNCHANGED issued
                   ELSE /\ Claims(payload) \in issued
                           \/ Cardinality(issued) < MaxTokens
                        /\ issued' = issued \cup {Claims(payload)}

----------------------------------------------------------------------------
(* The guarded routes *)

\* GET /users, GET /users/:username and the /movies routes
Read(route, cred, name, authFails, storeFails) ==
  LET auth == JWTStrategy(cred, now, users, authFails)
      g == RouteGuard(route, auth)
  IN /\ UNCHANGED <<users, created, movies, issued, now, pending, revoked>>
     /\ res' =
          IF g # "ok" THEN Rejected(route, g, cred, name, TRUE)
          ELSE IF storeFails
          THEN Res(route, 500, 1, TRUE, cred, name, TRUE, "StoreUnavailable",
                   "Error", {}, {})
          ELSE IF route = "GET /movies"
          THEN Res(route, 201, 1, TRUE, cred, name, TRUE, "", "", {}, {})
          ELSE IF route = "GET /users/:username" /\ findOne(users, name) = {}
          THEN Res(route, 404, 1, TRUE, cred, name, TRUE, "NotFound",
                   "User not found", {}, {})
          ELSE IF route = "GET /users"
          THEN Res(route, 200, 1, TRUE, cred, name, TRUE, "", "",
                   {toJSON(users[i]) : i \in 1..Len(users)}, {})
          ELSE IF route = "GET /users/:username"
          THEN Res(route, 200, 1, TRUE, cred, name, TRUE, "", "",
                   {toJSON(u) : u \in findOne(users, name)}, {})
          ELSE Res(route, 200, 1, TRUE, cred, name, TRUE, "", "", {}, {})

\* Users.findOneAndUpdate({ Username: name }, { $set: {...} })
updateProfile(us, name, body) ==
  IF Matching(us, name) = {} THEN us
  ELSE [us EXCEPT ![First(us, name)] = SetProfile(@, body)]

\* Users.findOneAndUpdate({ Username: name }, { $push: {...} })
pushFavorite(us, name, movieId) ==
  IF Matching(us, name) = {} THEN us
  ELSE [us EXCEPT ![First(us, name)] = PushFavorite(@, movieId)]

\* the comparison made with == on the two path parameters, always equal
PermissionDeniedNever(auth, name) == name # name

\* req.user.Username !== req.params.username
PermissionDenied(auth, name) == \A u \in auth.user : u.Username # name

PutUser(cred, name, body, authFails, storeFails) ==
  LET op == "PUT /users/:username"
      auth == JWTStrategy(cred, now, users, authFails)
      g == RouteGuard(op, auth)
      valid == validationResult(body)
  IN /\ UNCHANGED <<created, movies, issued, now, pending, revoked>>
     /\ IF g # "ok"
        THEN /\ res' = Rejected(op, g, cred, name, valid)
             /\ UNCHANGED users
        ELSE IF PermissionDenied(auth, name)
        THEN /\ res' = Res(op, 403, 1, TRUE, cred, name, valid, "PermissionDenied",
                           "Permission denied", {}, {})
             /\ UNCHANGED users
        ELSE IF storeFails
        THEN /\ res' = Res(op, 500, 1, TRUE, cred, name, valid, "StoreUnavailable",
                           "Error", {}, {})
             /\ UNCHANGED users
        ELSE /\ users' = updateProfile(users, name, body)
             /\ res' = Res(op, 200, 1, TRUE, cred, name, valid, "", "",
                           {toJSON(SetProfile(u, body)) : u \in findOne(users, name)}, {})

AddFavorite(cred, name, movieId, authFails, storeFails) ==
  LET op == "POST /users/:Username/movies/:MovieId"
      auth == JWTStrategy(cred, now, users, authFails)
      g == RouteGuard(op, auth)
  IN /\ UNCHANGED <<created, movies, issued, now, pending, revoked>>
     /\ IF g # "ok"
        THEN /\ res' = Rejected(op, g, cred, name, TRUE)
             /\ UNCHANGED users
        ELSE IF storeFails
        THEN /\ res' = Res(op, 500, 1, TRUE, cred, name, TRUE, "StoreUnavailable",
                           "Error", {}, {})
             /\ UNCHANGED users
        ELSE /\ \A u \in findOne(users, name) : Len(u.FavoriteMovies) < MaxFavs
             /\ users' = pushFavorite(users, name, movieId)
             /\ res' = Res(op, 200, 1, TRUE, cred, name, TRUE, "", "",
                           {toJSON(PushFavorite(u, movieId)) : u \in findOne(users, name)}, {})

\* Users.findOneAndRemove({ Username }, { $pull: {...} }, { new: true }):
\* the second argument is the options of the removal
pullFavorite(us, name, movieId) == findOneAndRemove(us, name)

DeleteFavorite(cred, name, movieId, authFails, storeFails) ==
  LET op == "DELETE /users/:Username/movies/:MovieId"
      auth == JWTStrategy(cred, now, users, authFails)
      g == RouteGuard(op, auth)
  IN /\ UNCHANGED <<created, movies, issued, now, pending, revoked>>
     /\ IF g # "ok"
        THEN /\ res' = Rejected(op, g, cred, name, TRUE)
             /\ UNCHANGED users
        ELSE IF storeFails
        THEN /\ res' = Res(op, 500, 1, TRUE, cred, name, TRUE, "StoreUnavailable",
                           "Error", {}, {})
             /\ UNCHANGED users
        ELSE /\ users' = pullFavorite(users, name, movieId)
             /\ res' = Res(op, 200, 1, TRUE, cred, name, TRUE, "", "",
                           {toJSON(u) : u \in findOne(users, name)}, {})

\* Users.findOneAndRemove({ Username: req.params.Username })
removeAccount(us, name) == findOneAndRemove(us, name)

\* the tokens issued to a user who is gone from the store: a token has no
\* revocation of its own
Revoked(iss, us, name) == {t \in iss : t.sub = name /\ Matching(us, name) = {}}

DeleteUser(cred, name, authFails, storeFails) ==
  LET op == "DELETE /users/:Username"
      auth == JWTStrategy(cred, now, users, authFails)
      g == RouteGuard(op, auth)
  IN /\ UNCHANGED <<created, movies, issued, now, pending>>
     /\ IF g # "ok"
        THEN /\ res' = Rejected(op, g, cred, name, TRUE)
             /\ UNCHANGED <<users, revoked>>
        ELSE IF PermissionDenied(auth, name)
        THEN /\ res' = Res(op, 403, 1, TRUE, cred, name, TRUE, "PermissionDenied",
                           "Permission denied", {}, {})
             /\ UNCHANGED <<users, revoked>>
        ELSE IF storeFails
        THEN /\ res' = Res(op, 500, 1, TRUE, cred, name, TRUE, "StoreUnavailable",
                           "Error", {}, {})
             /\ UNCHANGED <<users, revoked>>
        ELSE IF findOne(users, name) = {}
        THEN /\ res' = Res(op, 404, 1, TRUE, cred, name, TRUE, "NotFound",
                           "was not found", {}, {})
             /\ UNCHANGED <<users, revoked>>
        ELSE /\ users' = removeAccount(users, name)
             /\ revoked' = revoked \cup Revoked(issued, users', name)
             /\ res' = Res(op, 200, 1, TRUE, cred, name, TRUE, "", "was deleted", {}, {})

\* time passes
Tick ==
  /\ Idle
  /\ now < MaxTime
  /\ now' = now + 1
  /\ UNCHANGED <<users, created, movies, issued, pending, revoked, res>>

\* the response has gone out and the request is over
EndRequest ==
  /\ res # NoRes
  /\ res' = NoRes
  /\ UNCHANGED <<users, created, movies, issued, now, pending, revoked>>

\* a request that carries no valid signature reaches no store call, and its
\* path parameter is never read
Reaches(cred, name, f) ==
  cred.kind # "signed" => (name = "alice12" /\ f = "none")

Init ==
  /\ users = <<>>
  /\ created = 0
  /\ movies = MovieIds
  /\ issued = {}
  /\ now = 0
  /\ pending = [p \in Registrations |-> 0]
  /\ revoked = {}
  /\ res = NoRes

\* the requests the clients of the model send to a guarded route
Requests ==
  {q \in [cred : Creds(issued, now), name : Names, fails : Failures] :
     Reaches(q.cred, q.name, q.fails)}

\* POST /users arrives
PostUsersRequest ==
  Idle /\ \E body \in PostBodies, salt \in Salts, f \in BOOLEAN :
            (f => validationResult(body)) /\ PostUsers(body, salt, f)

\* the await of Users.findOne in POST /users is over
CreateUserStep ==
  Idle /\ \E p \in Registrations, f \in BOOLEAN : CreateUser(p, f)

\* POST /login arrives
LoginRequest ==
  Idle /\ \E name \in Names, password \in Passwords, f \in BOOLEAN, e \in BOOLEAN :
            ~(f /\ e) /\ Login(name, password, f, e)

\* a GET of a guarded route arrives
ReadRequest ==
  Idle /\ \E route \in ReadRoutes, q \in Requests :
            /\ route # "GET /users/:username" => q.name = "alice12"
            /\ Read(route, q.cred, q.name, q.fails = "strategy", q.fails = "handler")

\* PUT /users/:username arrives
PutUserRequest ==
  Idle /\ \E q \in Requests, body \in PutBodies :
            /\ q.cred.kind # "signed" => validationResult(body)
            /\ PutUser(q.cred, q.name, body, q.fails = "strategy", q.fails = "handler")

\* POST /users/:Username/movies/:MovieId arrives
AddFavoriteRequest ==
  Idle /\ \E q \in Requests, m \in MovieIds :
            AddFavorite(q.cred, q.name, m, q.fails = "strategy", q.fails = "handler")

\* DELETE /users/:Username/movies/:MovieId arrives
DeleteFavoriteRequest ==
  Idle /\ \E q \in Requests, m \in MovieIds :
            DeleteFavorite(q.cred, q.name, m, q.fails = "strategy", q.fails = "handler")

\* DELETE /users/:Username arrives
DeleteUserRequest ==
  Idle /\ \E q \in Requests :
            DeleteUser(q.cred, q.name, q.fails = "strategy", q.fails = "handler")

Next ==
  \/ PostUsersRequest
  \/ CreateUserStep
  \/ LoginRequest
  \/ ReadRequest
  \/ PutUserRequest
  \/ AddFavoriteRequest
  \/ DeleteFavoriteRequest
  \/ DeleteUserRequest
  \/ Tick
  \/ EndRequest

Spec == Init /\ [][Next]_vars

----------------------------------------------------------------------------
(* The claims *)

\* the routes the specification lists as protected
ProtectedRoutes ==
  {"GET /users", "GET /users/:username", "PUT /users/:username",
   "DELETE /users/:Username", "GET /movies", "GET /movies/:title",
   "GET /movies/:Genre/:Description", "GET /movies/:Director",
   "POST /users/:Username/movies/:MovieId",
   "DELETE /users/:Username/movies/:MovieId"}

\* a step in which a request is answered: res' is the answer, the unprimed
\* variables are the state the request found
Answered == Idle /\ res' # NoRes

\* no bearer token, or one that is malformed, badly signed or expired
InvalidCred(cred, t) ==
  \/ cred.kind \in {"none", "malformed", "badsig"}
  \/ cred.kind = "signed" /\ t >= cred.exp

\* C1: a request to a protected route that carries no bearer token or an
\* invalid one (malformed, bad signature, expired) is answered with 401, its
\* handler is not invoked, and the user and movie stores are left unchanged.
C1_GuardRejects ==
  [][(Answered /\ res'.op \in ProtectedRoutes /\ InvalidCred(res'.cred, now))
       => /\ res'.status = 401
          /\ ~res'.invoked
          /\ users' = users
          /\ movies' = movies]_vars

\* an expired token was presented to the favorites route of an existing user
C1_Witness ==
  /\ res.op = "POST /users/:Username/movies/:MovieId"
  /\ res.cred.kind = "signed"
  /\ now >= res.cred.exp
  /\ Matching(users, res.target) # {}
  /\ res.status = 401

\* C2: the Password stored in every user record is a hash made by the
\* Password Hasher, never the plaintext a client submitted.
C2_PasswordsHashed ==
  \A i \in 1..Len(users) :
    /\ IsHash(users[i].Password)
    /\ users[i].Password \notin BodyPasswords

\* C3: PUT /users/B or DELETE /users/B by a request authenticated as another
\* user A is answered 403 'Permission denied' whatever the body, and changes
\* no user record.
C3_OthersProfileDenied ==
  [][(/\ Answered
      /\ res'.op \in {"PUT /users/:username", "DELETE /users/:Username"}
      /\ res'.invoked
      /\ res'.cred.sub # res'.target)
       => /\ res'.status = 403
          /\ res'.message = "Permission denied"
          /\ users' = users]_vars

\* a PUT on another user's profile, with a body that fails validation, was
\* denied
C3_Witness ==
  /\ res.op = "PUT /users/:username"
  /\ res.status = 403
  /\ ~res.valid
  /\ Matching(users, res.target) # {}
  /\ res.cred.sub # res.target

\* the profile fields of a document
Profile(u) == <<u.Username, u.Password, u.Email, u.Birthday>>

\* C4: a user record leaves the store only by DELETE /users/:Username; DELETE
\* /users/:Username/movies/:MovieId keeps every record and its Username,
\* Password, Email and Birthday, and POST /users/:Username/movies/:MovieId
\* only appends MovieId to FavoriteMovies.
C4_OnlyAccountRemovalRemoves ==
  [][Answered =>
       /\ Len(users') < Len(users) => res'.op = "DELETE /users/:Username"
       /\ res'.op \in {"DELETE /users/:Username/movies/:MovieId",
                       "POST /users/:Username/movies/:MovieId"}
            => /\ Len(users') = Len(users)
               /\ \A i \in 1..Len(users) : Profile(users'[i]) = Profile(users[i])
       /\ res'.op = "POST /users/:Username/movies/:MovieId"
            => \A i \in 1..Len(users) :
                 \/ users'[i].FavoriteMovies = users[i].FavoriteMovies
                 \/ \E m \in MovieIds :
                      users'[i].FavoriteMovies = Append(users[i].FavoriteMovies, m)]_vars

\* what a client sees of an answer
Visible(r) ==
  [status |-> r.status, message |-> r.message, user |-> r.user,
   token |-> r.token, sends |-> r.sends]

\* C5: a login that fails for an unknown username and one that fails for a
\* wrong password are answered alike: status 400, the same message, no user.
C5_LoginFailuresAlike ==
  (res.op = "POST /login" /\ res.cause \in {"NotFound", "InvalidCredentials"})
    => Visible(res) = [status |-> 400, message |-> "Something is not right",
                       user |-> {}, token |-> {}, sends |-> 1]

\* a login with a wrong password for a registered user was refused
C5_Witness ==
  /\ res.op = "POST /login"
  /\ res.cause = "InvalidCredentials"
  /\ res.status = 400

Presented(r) == [sub |-> r.cred.sub, iat |-> r.cred.iat, exp |-> r.cred.exp]

\* a request to a protected route with a token whose user DELETE
\* /users/:Username has removed
WithRevoked ==
  /\ Answered
  /\ res'.op \in ProtectedRoutes
  /\ res'.cred.kind = "signed"
  /\ Presented(res') \in revoked

\* C7, as stated: once DELETE /users/:Username has removed U, a token issued
\* to U before is never treated as authenticated again.
C7_RevokedForever == [][WithRevoked => ~res'.invoked]_vars

\* C7, amended: such a token is rejected, and the handler not invoked, in
\* every state whose store holds no record with Username U.
C7_RevokedWhileAbsent ==
  [][(WithRevoked /\ Matching(users, res'.cred.sub) = {})
       => /\ ~res'.invoked
          /\ res'.status \in {401, 500}]_vars

\* an unexpired token of a removed user was presented and refused
C7_Witness ==
  /\ res.op = "GET /users"
  /\ res.cred.kind = "signed"
  /\ Presented(res) \in revoked
  /\ now < res.cred.exp
  /\ Matching(users, res.cred.sub) = {}
  /\ res.status = 401

\* C8: a failure of the store is answered with a 5xx status on every
\* endpoint, POST /login included.
C8_StoreFailureIs5xx ==
  res.cause = "StoreUnavailable" => res.status >= 500

\* C9: no two user records have the same Username.
C9_UniqueUsernames ==
  \A i, j \in 1..Len(users) : users[i].Username = users[j].Username => i = j

\* C10: every POST /login sends exactly one response.
C10_OneLoginResponse ==
  res.op = "POST /login" => res.sends = 1

====
